---- MODULE Spec2Model ----
(***************************************************************************)
(* Model of the coordination layer of cheshirecat-core:                    *)
(*   - NetworkDiscovery (cat/discovery/network.py): publication,           *)
(*     de-duplication, dispatch and forwarding of update messages;         *)
(*   - BillTheLizard (cat/looking_glass/bill_the_lizard.py): the tenant    *)
(*     map and the plugin callbacks that turn a local change into a        *)
(*     published update.                                                   *)
(* Every node runs one asyncio event loop: a coroutine runs atomically up  *)
(* to its next await, so each action of the update bus is one such stretch *)
(* of code. get_or_create_cheshire_cat is also called from the threads of  *)
(* the request pool, so its actions are its single statements.             *)
(***************************************************************************)
EXTENDS Integers, FiniteSets, Sequences, TLC

\* ------------------------------------------------------------------ bounds

\* Number of update ids (uuid4 values) that may be generated in a behaviour
\* of Spec, of SpecGossip and of SpecSeq.
MaxUpdates == 1
MaxGossipUpdates == 1
MaxSeqUpdates == 3
MaxFanOutUpdates == 2
MaxLiveUpdates == 1
MaxForwardUpdates == 1
MaxOtherUpdates == 1

\* The last instant of the clock of SpecPeers, in seconds.
MaxTime == 180

\* The last instant of the clock of SpecSessions, in seconds.
MaxSessionTime == 95

\* The iterations a background loop of SpecLoops begins at most.
MaxWakes == 3

Max(a, b) == IF a >= b THEN a ELSE b

\* The size above which handle_received_update "cleans up" the processed
\* set. The source literal is 1000; the model scales it so that the overflow
\* is reachable with MaxSeqUpdates ids.
DEDUP_CAPACITY == 2

\* Seconds without a heartbeat after which _cleanup_dead_nodes removes a
\* node, and the seconds it sleeps between two sweeps.
NODE_TIMEOUT == 90
CLEANUP_INTERVAL == 30

\* The value of the environment variable CCAT_STRAYCAT_TIMEOUT, in seconds.
CCAT_STRAYCAT_TIMEOUT == 60

\* ------------------------------------------------------------- value sets

Nodes == {"A", "B", "C"}
AgentIds == {"t1", "t2"}
StrayIds == {"s1", "s2"}

\* The tasks NetworkDiscovery.start creates.
Loops == {"_heartbeat_sender", "_heartbeat_receiver", "_cleanup_dead_nodes"}
UpdateIds ==
    1..Max(Max(Max(MaxUpdates, MaxGossipUpdates), Max(MaxSeqUpdates, MaxFanOutUpdates)),
           Max(Max(MaxLiveUpdates, MaxForwardUpdates), MaxOtherUpdates))

None == "None"
LIZARD == "lizard"
DEFAULT_LLM == "default"
LlmNames == {"gpt-x"}

\* An update_type other than the three handle_received_update tests for.
OTHER_TYPE == "settings_update"

UPLOAD == "upload://"
REGISTRY == "registry"
NoUrl == "-"
NoAgent == "-"

NOTIFY_PLUGIN_INSTALLED == "notify_plugin_installed"
CLEAN_UP_PLUGIN_UNINSTALL == "clean_up_plugin_uninstall"
LOCAL_ONLY == "local_only"

Outcomes == {"ok", "raise"}

VARIABLES
    nodes,                        \* NetworkDiscovery.nodes: node -> peer ids
    processed_updates,            \* NetworkDiscovery.processed_updates
    messages,                     \* every UpdateMessage constructed so far, by update_id
    cheshire_cats,                \* BillTheLizard.__cheshire_cats: node -> (agent_id -> cat)
    plugin_manager,               \* Tweedledum: plugin present, the two finish callbacks
    plugin_installation_registry, \* BillTheLizard.plugin_installation_registry[plugin]
    tasks,                        \* asyncio.create_task(...) propagations not yet started
    sent,                         \* every POST /api/updates request created: id, sender, receiver
    awaiting,                     \* coroutines suspended at an await
    \* What follows records what the calls did; no action reads it.
    inserted,                     \* per node, the ids added to processed_updates, in order
    deliveries,                   \* per node and id, calls of handle_received_update (0, 1, 2 = more)
    handled,                      \* per node, the handler invocations in order: id and outcome
    returned,                     \* per node and id, the results handle_received_update returned
    returned_id,                  \* per node, the ids propagate_update has returned
    callers,                      \* per worker, its call of get_or_create_cheshire_cat
    constructed,                  \* per agent_id, the CheshireCat objects constructed
    reported,                     \* per node and id, what propagate_update logged after its gather
    now,                          \* datetime.now(), in seconds
    last_seen,                    \* per node, NodeInfo.last_seen of every entry of self.nodes
    last_heartbeat,               \* per node and peer, when the last heartbeat arrived (-1: never)
    is_new_node,                  \* per node and peer, is_new_node of the last heartbeat handled
    next_cleanup,                 \* per node, when the sleep of _cleanup_dead_nodes ends
    removers,                     \* per task, its call of remove_cheshire_cat
    torn_down,                    \* per agent_id, the calls of CheshireCat.shutdown
    shutdown_call,                \* the call of BillTheLizard.shutdown
    job_scheduled,                \* the idle-strays job is scheduled in the white rabbit
    running,                      \* per node, NetworkDiscovery.running
    reaper_tick,                  \* flips whenever the idle-strays job runs
    strays,                       \* the StrayCat sessions alive: id -> its fields
    last_call,                    \* per session id, when __call__ was last entered (-1: never)
    sock,                         \* per node, NetworkDiscovery.sock is an open socket
    loop_pc,                      \* where each background loop of the host's discovery is
    wakes                         \* per background loop, the iterations it has begun

netVars == <<nodes, processed_updates, messages, tasks, sent, awaiting>>
lizardVars == <<cheshire_cats, plugin_manager, plugin_installation_registry>>
obsVars == <<inserted, deliveries, handled, returned, returned_id>>
registryVars == <<callers, constructed>>
discoveryVars == <<now, last_seen, last_heartbeat, is_new_node, next_cleanup>>
teardownVars == <<removers, torn_down, shutdown_call, job_scheduled, running, reaper_tick>>
sessionVars == <<strays, last_call>>
loopVars == <<sock, loop_pc, wakes>>
vars == <<netVars, lizardVars, obsVars, registryVars, reported, discoveryVars, teardownVars,
          sessionVars, loopVars>>

\* ------------------------------------------------------------ BillTheLizard

\* CheshireCat(agent_id): a new tenant object, the k-th constructed for its
\* agent_id (0: the one present after bootstrap).
CheshireCat(k) == [obj |-> k, llm |-> DEFAULT_LLM, lizard |-> LIZARD]

\* A propagation scheduled with asyncio.create_task: the arguments of the
\* propagate_update call it will make on node n.
Task(n, type, agent, llm, url) ==
    [node |-> n, update_type |-> type, agent_id |-> agent,
     language_model_name |-> llm, plugin_url |-> url]

\* What one synchronous stretch of lizard code leaves behind on its node.
\*   cats, pm, reg : the node's tenant map, plugin manager, installation registry
\*   tasks         : propagations scheduled with asyncio.create_task
\*   outcome       : "applied", "failed" (the apply raised inside the handler)
\*                   or "skipped" (the handler found nothing to apply to)
\*   raised        : an exception escaped the handler
Effect(cats, pm, reg, newTasks, outcome, raised) ==
    [cats |-> cats, pm |-> pm, reg |-> reg, tasks |-> newTasks,
     outcome |-> outcome, raised |-> raised]

\* BillTheLizard.get_cheshire_cat: non-creating lookup.
\* The result is <<cat>>, or <<>> for Python's None.
GetCheshireCat(cats_n, a) ==
    IF a \in DOMAIN cats_n THEN <<cats_n[a]>> ELSE <<>>

\* CheshireCat.replace_llm, the tenant's local-change entry point. It applies
\* the model and, when the tenant holds a lizard reference, schedules the
\* publication of an llm_update.
ReplaceLlm(cats_n, n, a, name, outcome) ==
    IF outcome = "raise"
    THEN [cats |-> cats_n, tasks |-> {}]
    ELSE [cats |-> [cats_n EXCEPT ![a].llm = name],
          tasks |-> IF cats_n[a].lizard # None
                    THEN {Task(n, "llm_update", a, name, NoUrl)}
                    ELSE {}]

\* BillTheLizard.notify_plugin_installed: local notification, then the
\* propagation if an installation url was registered for the plugin.
NotifyPluginInstalled(n, reg) ==
    IF reg # NoUrl
    THEN [reg |-> NoUrl, tasks |-> {Task(n, "plugin_installed", NoAgent, None, reg)}]
    ELSE [reg |-> reg, tasks |-> {}]

\* BillTheLizard.clean_up_plugin_uninstall: local clean up, then the propagation.
CleanUpPluginUninstall(n) ==
    {Task(n, "plugin_uninstalled", NoAgent, None, NoUrl)}

\* Tweedledum.install_plugin: installs and calls on_finish_plugin_install_callback.
InstallPlugin(pm, reg, n, outcome) ==
    IF outcome = "raise"
    THEN [pm |-> pm, reg |-> reg, tasks |-> {}]
    ELSE LET done == IF pm.on_finish_plugin_install_callback = NOTIFY_PLUGIN_INSTALLED
                     THEN NotifyPluginInstalled(n, reg)
                     ELSE [reg |-> reg, tasks |-> {}]
         IN [pm |-> [pm EXCEPT !.exists = TRUE], reg |-> done.reg, tasks |-> done.tasks]

\* Tweedledum.uninstall_plugin: removes and calls on_finish_plugin_uninstall_callback.
UninstallPlugin(pm, n, outcome) ==
    IF outcome = "raise"
    THEN [pm |-> pm, tasks |-> {}]
    ELSE [pm |-> [pm EXCEPT !.exists = FALSE],
          tasks |-> IF pm.on_finish_plugin_uninstall_callback = CLEAN_UP_PLUGIN_UNINSTALL
                    THEN CleanUpPluginUninstall(n)
                    ELSE {}]

\* ------------------------------------------------- NetworkDiscovery handlers

\* _handle_llm_update as it would be with get_or_create_cheshire_cat for the
\* lookup: a tenant that is not hosted is created and updated.
HandleLlmUpdateCreating(n, m, outcome) ==
    LET a == m.agent_id
        cats_n == IF a \in DOMAIN cheshire_cats[n] THEN cheshire_cats[n]
                  ELSE [b \in DOMAIN cheshire_cats[n] \cup {a} |->
                           IF b = a THEN CheshireCat(1)
                           ELSE cheshire_cats[n][b]]
        r == ReplaceLlm([cats_n EXCEPT ![a].lizard = None], n, a,
                        m.language_model_name, outcome)
    IN Effect(IF outcome = "ok" THEN [r.cats EXCEPT ![a].lizard = cats_n[a].lizard]
              ELSE r.cats,
              plugin_manager[n], plugin_installation_registry[n], r.tasks,
              IF outcome = "ok" THEN "applied" ELSE "failed", FALSE)

\* _handle_llm_update as it would be without its try/except blocks: the
\* exception of the apply escapes the handler.
HandleLlmUpdateUncaught(n, m, outcome) ==
    LET cats_n == cheshire_cats[n]
        pm == plugin_manager[n]
        reg == plugin_installation_registry[n]
        a == m.agent_id
    IN IF GetCheshireCat(cats_n, a) # <<>>
       THEN LET original_lizard == cats_n[a].lizard
                off == [cats_n EXCEPT ![a].lizard = None]
                r == ReplaceLlm(off, n, a, m.language_model_name, outcome)
            IN IF outcome = "ok"
               THEN Effect([r.cats EXCEPT ![a].lizard = original_lizard], pm, reg,
                           r.tasks, "applied", FALSE)
               ELSE Effect(r.cats, pm, reg, r.tasks, "failed", TRUE)
       ELSE Effect(cats_n, pm, reg, {}, "skipped", FALSE)

\* _handle_llm_update: no await inside, the whole handler is one stretch.
HandleLlmUpdate(n, m, outcome) ==
    LET cats_n == cheshire_cats[n]
        pm == plugin_manager[n]
        reg == plugin_installation_registry[n]
        a == m.agent_id
    IN IF GetCheshireCat(cats_n, a) # <<>>
       THEN LET original_lizard == cats_n[a].lizard
                off == [cats_n EXCEPT ![a].lizard = None]
                r == ReplaceLlm(off, n, a, m.language_model_name, outcome)
            IN IF outcome = "ok"
               THEN Effect([r.cats EXCEPT ![a].lizard = original_lizard], pm, reg,
                           r.tasks, "applied", FALSE)
               ELSE Effect(r.cats, pm, reg, r.tasks, "failed", FALSE)
       ELSE Effect(cats_n, pm, reg, {}, "skipped", FALSE)

\* _handle_plugin_installed, "upload://" branch: find_plugins and the
\* local-only notification; no await inside.
HandlePluginInstalledUpload(n, m, outcome) ==
    Effect(cheshire_cats[n], plugin_manager[n], plugin_installation_registry[n],
           {},
           IF ~plugin_manager[n].exists THEN "skipped"
           ELSE IF outcome = "raise" THEN "failed" ELSE "applied",
           FALSE)

\* _handle_plugin_installed, registry branch, the stretch after
\* `await registry_download_plugin(plugin_url)` has returned or raised.
HandlePluginInstalledRegistry(n, m, download, outcome) ==
    LET cats_n == cheshire_cats[n]
        pm == plugin_manager[n]
        reg == plugin_installation_registry[n]
    IN IF download = "raise"
       THEN Effect(cats_n, pm, reg, {}, "failed", FALSE)
       ELSE LET original_callback == pm.on_finish_plugin_install_callback
                off == [pm EXCEPT !.on_finish_plugin_install_callback = LOCAL_ONLY]
                r == InstallPlugin(off, reg, n, outcome)
            IN IF outcome = "ok"
               THEN Effect(cats_n,
                           [r.pm EXCEPT !.on_finish_plugin_install_callback = original_callback],
                           r.reg, r.tasks, "applied", FALSE)
               ELSE Effect(cats_n, r.pm, r.reg, r.tasks, "failed", FALSE)

\* _handle_plugin_uninstalled as it would be without the callback swap: the
\* uninstallation runs with the callback the lizard registered.
HandlePluginUninstalledNoSwap(n, m, outcome) ==
    LET pm == plugin_manager[n]
    IN IF pm.exists
       THEN LET r == UninstallPlugin(pm, n, outcome)
            IN Effect(cheshire_cats[n], r.pm, plugin_installation_registry[n], r.tasks,
                      IF outcome = "ok" THEN "applied" ELSE "failed", FALSE)
       ELSE Effect(cheshire_cats[n], pm, plugin_installation_registry[n], {},
                   "skipped", FALSE)

\* _handle_plugin_uninstalled: no await inside.
HandlePluginUninstalled(n, m, outcome) ==
    LET cats_n == cheshire_cats[n]
        pm == plugin_manager[n]
        reg == plugin_installation_registry[n]
    IN IF pm.exists
       THEN LET original_callback == pm.on_finish_plugin_uninstall_callback
                off == [pm EXCEPT !.on_finish_plugin_uninstall_callback = LOCAL_ONLY]
                r == UninstallPlugin(off, n, outcome)
            IN IF outcome = "ok"
               THEN Effect(cats_n,
                           [r.pm EXCEPT !.on_finish_plugin_uninstall_callback = original_callback],
                           reg, r.tasks, "applied", FALSE)
               ELSE Effect(cats_n, r.pm, reg, r.tasks, "failed", FALSE)
       ELSE Effect(cats_n, pm, reg, {}, "skipped", FALSE)


\* --------------------------------------------------------- NetworkDiscovery

\* UpdateMessage as propagate_update constructs it; update_id is its index
\* in `messages`.
UpdateMessage(t) ==
    [update_type |-> t.update_type, agent_id |-> t.agent_id,
     language_model_name |-> t.language_model_name, plugin_url |-> t.plugin_url,
     source_node |-> t.node]

Post(u, from, to) == [id |-> u, from |-> from, to |-> to]

Suspended(n, u, at) == [node |-> n, id |-> u, at |-> at]

Handled(u, outcome) == [id |-> u, outcome |-> outcome]

Bump(k) == IF k < 2 THEN k + 1 ELSE 2

\* handle_received_update, the de-duplication test. The mutant never finds
\* the id.
AlreadyProcessedNever(n, u) == FALSE
AlreadyProcessed(n, u) == u \in processed_updates[n]

\* propagate_update: "Mark as processed to avoid self-propagation". The
\* mutant forgets to.
MarkAsProcessedForgets(S, update_id) == S
MarkAsProcessed(S, update_id) == S \cup {update_id}

\* handle_received_update, lines 185-189: the size check whose body is `pass`.
CleanUpProcessed(S) ==
    IF Cardinality(S) > DEDUP_CAPACITY THEN S ELSE S

\* _propagate_to_others: the peers a received update is forwarded to. The
\* mutant does not leave out the source.
PropagateToOthersAll(n, m) == nodes[n]
PropagateToOthers(n, m) ==
    {p \in nodes[n] : p # m.source_node}

HasHandler(m) ==
    m.update_type \in {"llm_update", "plugin_installed", "plugin_uninstalled"}

\* The chain as it would be with a final else in place of the last elif.
DispatchElse(n, m, outcome) ==
    IF m.update_type = "llm_update" THEN HandleLlmUpdate(n, m, outcome)
    ELSE IF m.update_type = "plugin_installed" THEN HandlePluginInstalledUpload(n, m, outcome)
    ELSE HandlePluginUninstalled(n, m, outcome)

\* The if/elif chain of handle_received_update for the handlers that run
\* without suspending.
Dispatch(n, m, outcome) ==
    IF m.update_type = "llm_update" THEN HandleLlmUpdate(n, m, outcome)
    ELSE IF m.update_type = "plugin_installed" THEN HandlePluginInstalledUpload(n, m, outcome)
    ELSE IF m.update_type = "plugin_uninstalled" THEN HandlePluginUninstalled(n, m, outcome)
    ELSE Effect(cheshire_cats[n], plugin_manager[n], plugin_installation_registry[n],
                {}, "skipped", FALSE)

\* The rest of handle_received_update once the handler's stretch `e` is over:
\* the effect lands on the node, then _propagate_to_others creates the sends
\* and the call either awaits them or, with nothing to send, returns True.
\* An exception that escaped the handler ends the call instead.
AfterHandler(n, u, e, resumed) ==
    LET m == messages[u]
        targets == PropagateToOthers(n, m)
        forwards == {Post(u, n, p) : p \in targets}
    IN /\ cheshire_cats' = [cheshire_cats EXCEPT ![n] = e.cats]
       /\ plugin_manager' = [plugin_manager EXCEPT ![n] = e.pm]
       /\ plugin_installation_registry' = [plugin_installation_registry EXCEPT ![n] = e.reg]
       /\ tasks' = tasks \cup e.tasks
       /\ IF e.raised
          THEN /\ sent' = sent
               /\ awaiting' = awaiting \ resumed
               /\ returned' = [returned EXCEPT ![n][u].raised = TRUE]
          ELSE /\ sent' = sent \cup forwards
               /\ IF targets = {}
                  THEN /\ awaiting' = awaiting \ resumed
                       /\ returned' = [returned EXCEPT ![n][u].T = Bump(@)]
                  ELSE /\ awaiting' = (awaiting \ resumed) \cup {Suspended(n, u, "forward")}
                       /\ returned' = returned

\* handle_received_update up to its first await, for update u arriving at
\* node n.
HandleReceivedUpdate(n, u, outcome) ==
    LET m == messages[u] IN
    /\ deliveries' = [deliveries EXCEPT ![n][u] = Bump(@)]
    /\ UNCHANGED <<registryVars, discoveryVars, sessionVars, loopVars, teardownVars, reported, nodes, messages, returned_id>>
    /\ IF AlreadyProcessed(n, u)
       THEN /\ returned' = [returned EXCEPT ![n][u].F = TRUE]
            /\ UNCHANGED <<processed_updates, lizardVars, tasks, awaiting,
                           inserted, handled, sent>>
       ELSE /\ processed_updates' =
                   [processed_updates EXCEPT ![n] = CleanUpProcessed(@ \cup {u})]
            /\ inserted' = [inserted EXCEPT ![n] = Append(@, u)]
            /\ IF m.update_type = "plugin_installed" /\ m.plugin_url # UPLOAD
               THEN \* suspended in `await registry_download_plugin(plugin_url)`
                    /\ awaiting' = awaiting \cup {Suspended(n, u, "download")}
                    /\ handled' = [handled EXCEPT ![n] = Append(@, Handled(u, "pending"))]
                    /\ UNCHANGED <<lizardVars, tasks, returned, sent>>
               ELSE LET e == Dispatch(n, m, outcome)
                    IN /\ handled' = IF HasHandler(m)
                                     THEN [handled EXCEPT ![n] = Append(@, Handled(u, e.outcome))]
                                     ELSE handled
                       /\ AfterHandler(n, u, e, {})

\* A request a node has sent reaches node p.to: receive_network_update calls
\* handle_received_update. Delivery is at least once: the request stays in
\* `sent` and may arrive again.
ReceiveNetworkUpdate(p, outcome) ==
    /\ p \in sent
    /\ HandleReceivedUpdate(p.to, p.id, outcome)

\* The same endpoint reached by a request no modelled node has sent: the
\* route accepts any well-formed UpdateRequest, so a published message can be
\* echoed back to the node that published it.
ReceiveEchoedUpdate(n, u, outcome) ==
    /\ u \in 1..Len(messages)
    /\ messages[u].source_node = n
    /\ HandleReceivedUpdate(n, u, outcome)

\* The pending entry of u in a node's handler record gets its outcome.
Resolve(h, u, outcome) ==
    [i \in 1..Len(h) |->
        IF h[i] = Handled(u, "pending") THEN Handled(u, outcome) ELSE h[i]]

\* _handle_plugin_installed resumes after the download, then the call goes on
\* to _propagate_to_others.
DownloadReturns(n, u, download, outcome) ==
    /\ Suspended(n, u, "download") \in awaiting
    /\ LET e == HandlePluginInstalledRegistry(n, messages[u], download, outcome)
       IN /\ handled' = [handled EXCEPT ![n] = Resolve(@, u, e.outcome)]
          /\ AfterHandler(n, u, e, {Suspended(n, u, "download")})
    /\ UNCHANGED <<registryVars, discoveryVars, sessionVars, loopVars, teardownVars, reported, nodes, processed_updates, messages, inserted, deliveries, returned_id>>

\* asyncio.gather of _propagate_to_others is over (every send answered,
\* failed or timed out): handle_received_update returns True.
ForwardReturns(n, u) ==
    /\ Suspended(n, u, "forward") \in awaiting
    /\ awaiting' = awaiting \ {Suspended(n, u, "forward")}
    /\ returned' = [returned EXCEPT ![n][u].T = Bump(@)]
    /\ UNCHANGED <<registryVars, discoveryVars, sessionVars, loopVars, teardownVars, reported, nodes, processed_updates, messages, tasks, sent, lizardVars,
                   inserted, deliveries, handled, returned_id>>

\* propagate_update, `for node in self.nodes.values()`: the nodes an update
\* is sent to. The mutant sends to nobody.
KnownNodesNone(n) == {}
KnownNodes(n) == nodes[n]

\* propagate_update up to `await asyncio.gather(...)`: a fresh uuid4, recorded
\* as processed, one send per known node. At most `limit` ids are drawn.
PropagateUpdate(t, limit) ==
    LET n == t.node
        update_id == Len(messages) + 1
        sends == {Post(update_id, n, p) : p \in KnownNodes(n)}
    IN /\ t \in tasks
       /\ update_id <= limit
       /\ tasks' = tasks \ {t}
       /\ messages' = Append(messages, UpdateMessage(t))
       /\ processed_updates' = [processed_updates EXCEPT ![n] = MarkAsProcessed(@, update_id)]
       /\ inserted' = [inserted EXCEPT ![n] = Append(@, update_id)]
       /\ sent' = sent \cup sends
       /\ IF sends = {}
          THEN /\ awaiting' = awaiting
               /\ returned_id' = [returned_id EXCEPT ![n] = @ \cup {update_id}]
          ELSE /\ awaiting' = awaiting \cup {Suspended(n, update_id, "propagate")}
               /\ returned_id' = returned_id
       /\ UNCHANGED <<registryVars, discoveryVars, sessionVars, loopVars, teardownVars, reported, nodes, lizardVars, deliveries, handled, returned>>

\* _send_update_to_node: True when the POST was answered with success; any
\* exception is caught and False is returned.
SendUpdateToNode(fails) == IF fails THEN "False" ELSE "True"

\* propagate_update, the count it logs: the results that are no Exception.
Successful(results) ==
    Cardinality({p \in DOMAIN results : results[p] # "Exception"})

\* What propagate_update logged for an update: "propagated to
\* successful/total nodes"; `failed` are the peers whose send failed and
\* `raised` tells that the call raised instead of returning.
Report(successful, total, failed, raised) ==
    [successful |-> successful, total |-> total, failed |-> failed, raised |-> raised]

\* propagate_update as it would be if a failed send raised out of the
\* gather: the first failure aborts the call.
PropagateReturnsAborting(n, u, failed) ==
    LET targets == {p.to : p \in {q \in sent : q.from = n /\ q.id = u}}
    IN /\ Suspended(n, u, "propagate") \in awaiting
       /\ failed \subseteq targets
       /\ awaiting' = awaiting \ {Suspended(n, u, "propagate")}
       /\ IF failed = {}
          THEN /\ reported' = [reported EXCEPT ![n][u] =
                      <<Report(Cardinality(targets), Cardinality(targets), failed, FALSE)>>]
               /\ returned_id' = [returned_id EXCEPT ![n] = @ \cup {u}]
          ELSE /\ reported' = [reported EXCEPT ![n][u] = <<Report(0, 0, failed, TRUE)>>]
               /\ returned_id' = returned_id
       /\ UNCHANGED <<registryVars, discoveryVars, sessionVars, loopVars, teardownVars, nodes, processed_updates,
                      messages, tasks, sent, lizardVars, inserted, deliveries, handled,
                      returned>>

\* asyncio.gather of propagate_update is over; the sends to the peers in
\* `failed` failed. The count is logged and update_id is returned.
PropagateReturns(n, u, failed) ==
    LET targets == {p.to : p \in {q \in sent : q.from = n /\ q.id = u}}
        results == [p \in targets |-> SendUpdateToNode(p \in failed)]
    IN /\ Suspended(n, u, "propagate") \in awaiting
       /\ failed \subseteq targets
       /\ awaiting' = awaiting \ {Suspended(n, u, "propagate")}
       /\ reported' = [reported EXCEPT ![n][u] =
              <<Report(Successful(results), Cardinality(targets), failed, FALSE)>>]
       /\ returned_id' = [returned_id EXCEPT ![n] = @ \cup {u}]
       /\ UNCHANGED <<registryVars, discoveryVars, sessionVars, loopVars, teardownVars, nodes, processed_updates,
                      messages, tasks, sent, lizardVars, inserted, deliveries, handled,
                      returned>>

\* ------------------------------------------------- locally-initiated changes

\* Room for the ids the scheduled propagations will draw.
CanSchedule(newTasks, limit) ==
    /\ newTasks \cap tasks = {}
    /\ Len(messages) + Cardinality(tasks \cup newTasks) <= limit

\* PUT /llm/settings/{name} on node n for tenant a: ccat.replace_llm.
LocalReplaceLlm(n, a, name, limit) ==
    /\ a \in DOMAIN cheshire_cats[n]
    /\ LET r == ReplaceLlm(cheshire_cats[n], n, a, name, "ok")
       IN /\ CanSchedule(r.tasks, limit)
          /\ cheshire_cats' = [cheshire_cats EXCEPT ![n] = r.cats]
          /\ tasks' = tasks \cup r.tasks
    /\ UNCHANGED <<registryVars, discoveryVars, sessionVars, loopVars, teardownVars, reported, nodes, processed_updates, messages, sent, awaiting, plugin_manager,
                   plugin_installation_registry, obsVars>>

\* A plugin installed on node n from `url`: register_plugin_installation, then
\* install_plugin.
LocalInstallPlugin(n, url, limit) ==
    /\ LET r == InstallPlugin(plugin_manager[n], url, n, "ok")
       IN /\ CanSchedule(r.tasks, limit)
          /\ plugin_manager' = [plugin_manager EXCEPT ![n] = r.pm]
          /\ plugin_installation_registry' =
                 [plugin_installation_registry EXCEPT ![n] = r.reg]
          /\ tasks' = tasks \cup r.tasks
    /\ UNCHANGED <<registryVars, discoveryVars, sessionVars, loopVars, teardownVars, reported, nodes, processed_updates, messages, sent, awaiting, cheshire_cats,
                   obsVars>>

\* A plugin uninstalled on node n: uninstall_plugin.
LocalUninstallPlugin(n, limit) ==
    /\ plugin_manager[n].exists
    /\ LET r == UninstallPlugin(plugin_manager[n], n, "ok")
       IN /\ CanSchedule(r.tasks, limit)
          /\ plugin_manager' = [plugin_manager EXCEPT ![n] = r.pm]
          /\ tasks' = tasks \cup r.tasks
    /\ UNCHANGED <<registryVars, discoveryVars, sessionVars, loopVars, teardownVars, reported, nodes, processed_updates, messages, sent, awaiting, cheshire_cats,
                   plugin_installation_registry, obsVars>>

\* Node n publishes an update of a type the receivers have no handler for:
\* propagate_update takes any string as update_type, and so does the route.
LocalPublishOther(n, limit) ==
    LET t == Task(n, OTHER_TYPE, NoAgent, None, NoUrl)
    IN /\ CanSchedule({t}, limit)
       /\ tasks' = tasks \cup {t}
       /\ UNCHANGED <<registryVars, discoveryVars, sessionVars, loopVars, teardownVars,
                      reported, nodes, processed_updates, messages, sent, awaiting,
                      lizardVars, obsVars>>

\* --------------------------------------------------------- peer directory

\* The amounts of time, in seconds, by which the clock is seen to advance.
Delays == {10, 20}

\* Time passes. A sleeping sweep wakes up when its sleep is over: the clock
\* does not pass the end of the sleep of a running node before its sweep ran.
Advance(d) ==
    /\ now + d <= MaxTime
    /\ \A n \in Nodes : running[n] => now + d <= next_cleanup[n]
    /\ now' = now + d
    /\ UNCHANGED <<netVars, lizardVars, obsVars, registryVars, reported, teardownVars, sessionVars, loopVars,
                   last_seen, last_heartbeat, is_new_node, next_cleanup>>

\* _heartbeat_receiver, one datagram: a heartbeat of node p arrives at node n.
\* The entry of p is created or replaced, with last_seen = now.
HeartbeatReceived(n, p) ==
    /\ running[n]
    /\ p # n
    /\ is_new_node' = [is_new_node EXCEPT ![n][p] = p \notin nodes[n]]
    /\ nodes' = [nodes EXCEPT ![n] = @ \cup {p}]
    /\ last_seen' = [last_seen EXCEPT ![n] =
          [q \in nodes[n] \cup {p} |-> IF q = p THEN now ELSE last_seen[n][q]]]
    /\ last_heartbeat' = [last_heartbeat EXCEPT ![n][p] = now]
    /\ UNCHANGED <<processed_updates, messages, tasks, sent, awaiting, lizardVars, obsVars,
                   registryVars, reported, teardownVars, sessionVars, loopVars, now, next_cleanup>>

\* _cleanup_dead_nodes, the test of one sweep. The mutant finds no dead node.
DeadNodesNone(seen, t) == {}
DeadNodes(seen, t) == {p \in DOMAIN seen : t - seen[p] > NODE_TIMEOUT}

\* _cleanup_dead_nodes, one iteration: the dead nodes are deleted, then the
\* task sleeps.
CleanupDeadNodes(n) ==
    LET dead_nodes == DeadNodes(last_seen[n], now)
    IN /\ running[n]
       /\ now = next_cleanup[n]
       /\ nodes' = [nodes EXCEPT ![n] = @ \ dead_nodes]
       /\ last_seen' = [last_seen EXCEPT ![n] =
             [q \in nodes[n] \ dead_nodes |-> last_seen[n][q]]]
       /\ next_cleanup' = [next_cleanup EXCEPT ![n] = now + CLEANUP_INTERVAL]
       /\ UNCHANGED <<processed_updates, messages, tasks, sent, awaiting, lizardVars,
                      obsVars, registryVars, reported, teardownVars, sessionVars, loopVars, now, last_heartbeat,
                      is_new_node>>

\* get_active_nodes: list(self.nodes.values()).
GetActiveNodes(n) == nodes[n]

\* NetworkDiscovery.stop: the flag is cleared and the socket closed, with no
\* await in between.
Stop(n) ==
    /\ running' = [running EXCEPT ![n] = FALSE]
    /\ sock' = [sock EXCEPT ![n] = FALSE]

\* stop() is called on node n.
StopCalled(n) ==
    /\ running[n]
    /\ Stop(n)
    /\ UNCHANGED <<netVars, lizardVars, obsVars, registryVars, reported, discoveryVars,
                   sessionVars, loop_pc, wakes, removers, torn_down, shutdown_call,
                   job_scheduled, reaper_tick>>

\* `while self.running`, the test of the three loops. The mutant loops for
\* ever.
LoopConditionAlways(n) == TRUE
LoopCondition(n) == running[n]

\* Background loop l of node n wakes from its asyncio.sleep and tests its
\* loop condition: it begins another iteration, which ends in a sleep, or it
\* leaves the loop and the task ends.
LoopWakes(n, l) ==
    /\ loop_pc[l] = "sleeping"
    /\ IF LoopCondition(n)
       THEN /\ wakes[l] < MaxWakes
            /\ wakes' = [wakes EXCEPT ![l] = @ + 1]
            /\ UNCHANGED loop_pc
       ELSE /\ loop_pc' = [loop_pc EXCEPT ![l] = "exited"]
            /\ UNCHANGED wakes
    /\ UNCHANGED <<netVars, lizardVars, obsVars, registryVars, reported, discoveryVars,
                   sessionVars, sock, teardownVars>>

\* ------------------------------------------- get_or_create_cheshire_cat

\* The process whose tenant registry the workers use.
HOST == "A"

\* The threads of that process that call into the registry: the event loop
\* and two request workers of the thread pool.
Workers == {"loop", "w1", "w2"}

DEFAULT_SYSTEM_KEY == "system"

\* The agent_ids the workers ask for: one hosted after bootstrap, one not
\* hosted yet, and the reserved one.
RegistryAgentIds == {"t1", "t3", DEFAULT_SYSTEM_KEY}

\* A call of get_or_create_cheshire_cat: where the worker is in it, its
\* argument, its local new_cat and what it returned or raised.
Call(pc, agent_id, new_cat, result, raised) ==
    [pc |-> pc, agent_id |-> agent_id, new_cat |-> new_cat, result |-> result,
     raised |-> raised]

Idle == Call("idle", NoAgent, <<>>, <<>>, FALSE)

\* Worker w calls get_or_create_cheshire_cat(agent_id).
GetOrCreateCalled(w, agent_id) ==
    /\ callers[w].pc = "idle"
    /\ callers' = [callers EXCEPT ![w] = Call("lookup", agent_id, <<>>, <<>>, FALSE)]
    /\ UNCHANGED <<discoveryVars, sessionVars, loopVars, teardownVars, reported, netVars, lizardVars, obsVars, constructed>>

\* The lookup without the test of the reserved id.
GetOrCreateLookupNoReserved(w) ==
    LET agent_id == callers[w].agent_id
        current_cat == GetCheshireCat(cheshire_cats[HOST], agent_id)
    IN /\ callers[w].pc = "lookup"
       /\ callers' = [callers EXCEPT ![w] =
             IF current_cat # <<>>
             THEN Call("done", agent_id, <<>>, <<current_cat[1].obj>>, FALSE)
             ELSE Call("construct", agent_id, <<>>, <<>>, FALSE)]
       /\ UNCHANGED <<discoveryVars, sessionVars, loopVars, teardownVars, reported, netVars, lizardVars, obsVars, constructed>>

\* get_cheshire_cat and the two tests that follow it: return the tenant that
\* is in the map, raise ValueError for the reserved id, or go on to construct.
GetOrCreateLookup(w) ==
    LET agent_id == callers[w].agent_id
        current_cat == GetCheshireCat(cheshire_cats[HOST], agent_id)
    IN /\ callers[w].pc = "lookup"
       /\ callers' = [callers EXCEPT ![w] =
             IF current_cat # <<>>
             THEN Call("done", agent_id, <<>>, <<current_cat[1].obj>>, FALSE)
             ELSE IF agent_id = DEFAULT_SYSTEM_KEY
             THEN Call("done", agent_id, <<>>, <<>>, TRUE)
             ELSE Call("construct", agent_id, <<>>, <<>>, FALSE)]
       /\ UNCHANGED <<discoveryVars, sessionVars, loopVars, teardownVars, reported, netVars, lizardVars, obsVars, constructed>>

\* new_cat = CheshireCat(agent_id)
GetOrCreateConstruct(w) ==
    LET agent_id == callers[w].agent_id
        new_cat == CheshireCat(constructed[agent_id] + 1)
    IN /\ callers[w].pc = "construct"
       /\ constructed' = [constructed EXCEPT ![agent_id] = @ + 1]
       /\ callers' = [callers EXCEPT ![w] = Call("insert", agent_id, <<new_cat>>, <<>>, FALSE)]
       /\ UNCHANGED <<discoveryVars, sessionVars, loopVars, teardownVars, reported, netVars, lizardVars, obsVars>>

\* self.__cheshire_cats[agent_id] = new_cat; return new_cat
GetOrCreateInsert(w) ==
    LET agent_id == callers[w].agent_id
        new_cat == callers[w].new_cat[1]
        cats == cheshire_cats[HOST]
    IN /\ callers[w].pc = "insert"
       /\ cheshire_cats' = [cheshire_cats EXCEPT ![HOST] =
             [a \in DOMAIN cats \cup {agent_id} |->
                 IF a = agent_id THEN new_cat ELSE cats[a]]]
       /\ callers' = [callers EXCEPT ![w] =
             Call("done", agent_id, <<>>, <<new_cat.obj>>, FALSE)]
       /\ UNCHANGED <<discoveryVars, sessionVars, loopVars, teardownVars, reported, netVars, plugin_manager, plugin_installation_registry, obsVars,
                      constructed>>

\* ------------------------------------------------ remove_cheshire_cat

\* The tasks of the event loop that call remove_cheshire_cat.
Removers == {"r1", "r2"}

\* A call of remove_cheshire_cat: where it is, its argument, and whether it
\* raised.
Removal(pc, agent_id, raised) == [pc |-> pc, agent_id |-> agent_id, raised |-> raised]

NoRemoval == Removal("idle", NoAgent, FALSE)

\* The agent_ids remove_cheshire_cat is called with: two hosted ones and one
\* that is not in the map.
RemovedAgentIds == {"t1", "t2", "t3"}

Without(cats_n, a) == [b \in DOMAIN cats_n \ {a} |-> cats_n[b]]

\* looking_glass/bill_the_lizard.py. Task r calls remove_cheshire_cat(a) and
\* runs to its await: a tenant in the map is popped and its shutdown is
\* called; for an absent id the call returns at once.
RemoveCheshireCat(r, a) ==
    /\ removers[r].pc \in {"idle", "done"}
    /\ IF a \in DOMAIN cheshire_cats[HOST]
       THEN /\ cheshire_cats' = [cheshire_cats EXCEPT ![HOST] = Without(@, a)]
            /\ torn_down' = [torn_down EXCEPT ![a] = @ + 1]
            /\ removers' = [removers EXCEPT ![r] = Removal("shutdown", a, FALSE)]
       ELSE /\ removers' = [removers EXCEPT ![r] = Removal("done", a, FALSE)]
            /\ UNCHANGED <<cheshire_cats, torn_down>>
    /\ UNCHANGED <<netVars, plugin_manager, plugin_installation_registry, obsVars,
                   registryVars, reported, discoveryVars, sessionVars, loopVars, shutdown_call, job_scheduled,
                   running, reaper_tick>>

\* await ccat.shutdown() is over; del ccat drops the local name.
RemoveReturns(r) ==
    /\ removers[r].pc = "shutdown"
    /\ removers' = [removers EXCEPT ![r] = Removal("done", @.agent_id, FALSE)]
    /\ UNCHANGED <<netVars, lizardVars, obsVars, registryVars, reported, discoveryVars, sessionVars, loopVars,
                   torn_down, shutdown_call, job_scheduled, running, reaper_tick>>

\* cat/bill_the_lizard.py. Task r calls remove_cheshire_cat(a) and runs to its
\* await: the tenant is read from the map, where it stays, and its shutdown
\* is called.
RemoveCheshireCatOld(r, a) ==
    /\ removers[r].pc \in {"idle", "done"}
    /\ IF a \in DOMAIN cheshire_cats[HOST]
       THEN /\ torn_down' = [torn_down EXCEPT ![a] = @ + 1]
            /\ removers' = [removers EXCEPT ![r] = Removal("shutdown", a, FALSE)]
       ELSE /\ removers' = [removers EXCEPT ![r] = Removal("done", a, FALSE)]
            /\ UNCHANGED torn_down
    /\ UNCHANGED <<netVars, lizardVars, obsVars, registryVars, reported, discoveryVars, sessionVars, loopVars,
                   shutdown_call, job_scheduled, running, reaper_tick>>

\* await ccat.shutdown() is over; del self.__cheshire_cats[agent_id], which
\* raises KeyError when the key is gone.
RemoveReturnsOld(r) ==
    LET a == removers[r].agent_id
    IN /\ removers[r].pc = "shutdown"
       /\ IF a \in DOMAIN cheshire_cats[HOST]
          THEN /\ cheshire_cats' = [cheshire_cats EXCEPT ![HOST] = Without(@, a)]
               /\ removers' = [removers EXCEPT ![r] = Removal("done", a, FALSE)]
          ELSE /\ removers' = [removers EXCEPT ![r] = Removal("done", a, TRUE)]
               /\ UNCHANGED cheshire_cats
       /\ UNCHANGED <<netVars, plugin_manager, plugin_installation_registry, obsVars,
                      registryVars, reported, discoveryVars, sessionVars, loopVars, torn_down, shutdown_call,
                      job_scheduled, running, reaper_tick>>

\* ------------------------------------------------------------------ sessions

\* The fields of a StrayCat the idle test reads. __last_message_time is << >>
\* for None and <<t>> for the time t.
StrayCat(last_message_time) == [last_message_time |-> last_message_time]

\* How a call of StrayCat.__call__ ends: with the reply, with the early
\* VectorMemoryError reply, or with an exception of the agent.
CallOutcomes == {"reply", "error_reply", "raise"}

\* The amounts of time, in seconds, by which the clock of the sessions is
\* seen to advance.
SessionDelays == {30, 31}

\* `not self.__last_message_time`: None and 0 are falsy.
Falsy(x) == x = << >> \/ x[1] = 0

\* StrayCat.is_idle at time t. The first mutant compares with >, the second
\* takes an unset time for the start of the clock.
IsIdleStrict(stray, t) ==
    IF Falsy(stray.last_message_time) THEN FALSE
    ELSE t - stray.last_message_time[1] > CCAT_STRAYCAT_TIMEOUT
IsIdleUnsetIsZero(stray, t) ==
    t - (IF Falsy(stray.last_message_time) THEN 0 ELSE stray.last_message_time[1])
        >= CCAT_STRAYCAT_TIMEOUT
IsIdle(stray, t) ==
    IF Falsy(stray.last_message_time) THEN FALSE
    ELSE t - stray.last_message_time[1] >= CCAT_STRAYCAT_TIMEOUT

\* StrayCat.__call__ at time t: only the path that reaches the end of the
\* method assigns __last_message_time.
StrayCall(stray, t, outcome) ==
    IF outcome = "reply" THEN StrayCat(<<t>>) ELSE stray

\* One sweep of job_on_idle_strays over the sessions S at time t: the idle
\* sessions are evicted.
JobOnIdleStrays(S, t) ==
    [s \in {x \in DOMAIN S : ~IsIdle(S[x], t)} |-> S[s]]

\* The first message of a user arrives: StrayCat(...) is constructed.
StrayCreated(s) ==
    /\ s \notin DOMAIN strays
    /\ strays' = [x \in DOMAIN strays \cup {s} |->
                     IF x = s THEN StrayCat(<< >>) ELSE strays[x]]
    /\ last_call' = [last_call EXCEPT ![s] = -1]
    /\ UNCHANGED <<netVars, lizardVars, obsVars, registryVars, reported, discoveryVars, loopVars,
                   teardownVars>>

\* A message of the user of session s is handled: StrayCat.__call__.
\* time.time() is positive: no message is handled at the epoch.
StrayCalled(s, outcome) ==
    /\ s \in DOMAIN strays
    /\ now > 0
    /\ strays' = [strays EXCEPT ![s] = StrayCall(@, now, outcome)]
    /\ last_call' = [last_call EXCEPT ![s] = now]
    /\ UNCHANGED <<netVars, lizardVars, obsVars, registryVars, reported, discoveryVars, loopVars,
                   teardownVars>>

\* Time passes for the sessions.
Elapse(d) ==
    /\ now + d <= MaxSessionTime
    /\ now' = now + d
    /\ UNCHANGED <<netVars, lizardVars, obsVars, registryVars, reported, teardownVars,
                   sessionVars, loopVars, last_seen, last_heartbeat, is_new_node, next_cleanup>>

\* ------------------------------------------------------------------ shutdown

\* The call of BillTheLizard.shutdown: where it is, the tenants its loop has
\* still to visit, and the size of the tenant map when the loop's iterator
\* was made.
ShutdownCall(pc, remaining, used) == [pc |-> pc, remaining |-> remaining, used |-> used]

NoShutdown == ShutdownCall("idle", {}, 0)

\* What CheshireCat.shutdown does when awaited: it returns or it raises.
TeardownOutcomes == {"ok", "raise"}

\* shutdown is called: the iterator over self.__cheshire_cats.values() is made.
ShutdownCalled ==
    /\ shutdown_call.pc = "idle"
    /\ shutdown_call' = ShutdownCall("tenants", DOMAIN cheshire_cats[HOST],
                                     Cardinality(DOMAIN cheshire_cats[HOST]))
    /\ UNCHANGED <<netVars, lizardVars, obsVars, registryVars, reported, discoveryVars, sessionVars, loopVars,
                   removers, torn_down, job_scheduled, running, reaper_tick>>

\* One iteration of the loop: await ccat.shutdown() for the next tenant. An
\* exception of the tenant's shutdown leaves the loop and the method.
ShutdownTenant(a, outcome) ==
    /\ shutdown_call.pc = "tenants"
    /\ Cardinality(DOMAIN cheshire_cats[HOST]) = shutdown_call.used
    /\ a \in shutdown_call.remaining
    /\ torn_down' = [torn_down EXCEPT ![a] = @ + 1]
    /\ shutdown_call' =
          IF outcome = "raise"
          THEN ShutdownCall("raised", shutdown_call.remaining \ {a}, shutdown_call.used)
          ELSE ShutdownCall("tenants", shutdown_call.remaining \ {a}, shutdown_call.used)
    /\ UNCHANGED <<netVars, lizardVars, obsVars, registryVars, reported, discoveryVars, sessionVars, loopVars,
                   removers, job_scheduled, running, reaper_tick>>

\* The iterator is advanced after the map lost a key during an await:
\* RuntimeError, dictionary changed size during iteration.
ShutdownIteratorRaises ==
    /\ shutdown_call.pc = "tenants"
    /\ Cardinality(DOMAIN cheshire_cats[HOST]) # shutdown_call.used
    /\ shutdown_call' = ShutdownCall("raised", shutdown_call.remaining, shutdown_call.used)
    /\ UNCHANGED <<netVars, lizardVars, obsVars, registryVars, reported, discoveryVars, sessionVars, loopVars,
                   removers, torn_down, job_scheduled, running, reaper_tick>>

\* The loop is over: self.__cheshire_cats = {}
ShutdownClearsTenants ==
    /\ shutdown_call.pc = "tenants"
    /\ Cardinality(DOMAIN cheshire_cats[HOST]) = shutdown_call.used
    /\ shutdown_call.remaining = {}
    /\ cheshire_cats' = [cheshire_cats EXCEPT ![HOST] = << >>]
    /\ shutdown_call' = ShutdownCall("discovery", {}, shutdown_call.used)
    /\ UNCHANGED <<netVars, plugin_manager, plugin_installation_registry, obsVars,
                   registryVars, reported, discoveryVars, sessionVars, loopVars, removers, torn_down,
                   job_scheduled, running, reaper_tick>>

\* await self.network_discovery.stop()
ShutdownStopsDiscovery ==
    /\ shutdown_call.pc = "discovery"
    /\ Stop(HOST)
    /\ shutdown_call' = ShutdownCall("jobs", {}, shutdown_call.used)
    /\ UNCHANGED <<netVars, lizardVars, obsVars, registryVars, reported, discoveryVars,
                   sessionVars, loop_pc, wakes, removers, torn_down, job_scheduled,
                   reaper_tick>>

\* self.white_rabbit.remove_job(self.__check_idle_strays_job_id), then the
\* scheduler is shut down and the fields are cleared.
ShutdownRemovesJob ==
    /\ shutdown_call.pc = "jobs"
    /\ job_scheduled' = FALSE
    /\ shutdown_call' = ShutdownCall("done", {}, shutdown_call.used)
    /\ UNCHANGED <<netVars, lizardVars, obsVars, registryVars, reported, discoveryVars, sessionVars, loopVars,
                   removers, torn_down, running, reaper_tick>>

\* The scheduler runs the job __init__ scheduled, job_on_idle_strays, as long
\* as the job is scheduled.
ReaperRuns ==
    /\ job_scheduled
    /\ reaper_tick' = ~reaper_tick
    /\ strays' = JobOnIdleStrays(strays, now)
    /\ UNCHANGED <<netVars, lizardVars, obsVars, registryVars, reported, discoveryVars, loopVars,
                   last_call, removers, torn_down, shutdown_call, job_scheduled, running>>

\* ------------------------------------------------------------ specification

NewCat == CheshireCat(0)

\* Peer maps the heartbeats have built.
\*   Pair     : A and B know each other, C is not part of the network
\*   Line     : A - B - C
\*   FullMesh : every node knows every other
\*   Hub      : A knows B and C, B knows A, C knows nobody
Pair == [n \in Nodes |-> IF n = "C" THEN {} ELSE {"A", "B"} \ {n}]
Line == [n \in Nodes |-> IF n = "B" THEN {"A", "C"} ELSE {"B"}]
FullMesh == [n \in Nodes |-> Nodes \ {n}]
Hub == [n \in Nodes |-> CASE n = "A" -> {"B", "C"} [] n = "B" -> {"A"} [] OTHER -> {}]

\* Every peer map: a node knows any set of other nodes, and the knowledge
\* need not be mutual.
AllPeerMaps == {f \in [Nodes -> SUBSET Nodes] : \A n \in Nodes : n \notin f[n]}

\* The nodes after construction and discovery. Node A hosts t1 and t2, B
\* hosts t2 and C hosts t1; the plugin is installed on A and B.
InitNodes(topologies) ==
    /\ nodes \in topologies
    /\ processed_updates = [n \in Nodes |-> {}]
    /\ messages = << >>
    /\ cheshire_cats = [n \in Nodes |->
                          [a \in (CASE n = "A" -> {"t1", "t2"}
                                    [] n = "B" -> {"t2"}
                                    [] OTHER -> {"t1"}) |-> NewCat]]
    /\ plugin_manager = [n \in Nodes |->
                           [exists |-> n # "C",
                            on_finish_plugin_install_callback |-> NOTIFY_PLUGIN_INSTALLED,
                            on_finish_plugin_uninstall_callback |-> CLEAN_UP_PLUGIN_UNINSTALL]]
    /\ plugin_installation_registry = [n \in Nodes |-> NoUrl]
    /\ tasks = {}
    /\ sent = {}
    /\ awaiting = {}
    /\ inserted = [n \in Nodes |-> << >>]
    /\ deliveries = [n \in Nodes |-> [u \in UpdateIds |-> 0]]
    /\ handled = [n \in Nodes |-> << >>]
    /\ returned = [n \in Nodes |-> [u \in UpdateIds |-> [T |-> 0, F |-> FALSE, raised |-> FALSE]]]
    /\ returned_id = [n \in Nodes |-> {}]
    /\ reported = [n \in Nodes |-> [u \in UpdateIds |-> << >>]]
    /\ now = 0
    /\ last_seen = [n \in Nodes |-> [p \in nodes[n] |-> 0]]
    /\ last_heartbeat = [n \in Nodes |-> [p \in Nodes |-> IF p \in nodes[n] THEN 0 ELSE -1]]
    /\ is_new_node = [n \in Nodes |-> [p \in Nodes |-> FALSE]]
    /\ next_cleanup = [n \in Nodes |-> 0]
    /\ removers = [r \in Removers |-> NoRemoval]
    /\ torn_down = [a \in AgentIds \cup RegistryAgentIds |-> 0]
    /\ shutdown_call = NoShutdown
    /\ job_scheduled = TRUE
    /\ running = [n \in Nodes |-> TRUE]
    /\ reaper_tick = FALSE
    /\ strays = << >>
    /\ last_call = [s \in StrayIds |-> -1]
    /\ sock = [n \in Nodes |-> TRUE]
    /\ loop_pc = [l \in Loops |-> "sleeping"]
    /\ wakes = [l \in Loops |-> 0]
    /\ callers = [w \in Workers |-> Idle]
    /\ constructed = [a \in RegistryAgentIds |-> 0]

\* Publication, its return once the sends are over, and the delivery of what
\* nodes have sent.
Network(limit) ==
    \/ \E t \in tasks : PropagateUpdate(t, limit)
    \/ \E n \in Nodes, u \in UpdateIds : PropagateReturns(n, u, {})
    \/ \E p \in sent, o \in Outcomes : ReceiveNetworkUpdate(p, o)

\* Two nodes, both making every kind of local change; published messages may
\* be echoed back. A receiving node knows no node but the source, so
\* _propagate_to_others has nothing to await.
Init == InitNodes({Pair})
Next ==
    \/ \E n \in {"A", "B"}, a \in AgentIds, name \in LlmNames :
           LocalReplaceLlm(n, a, name, MaxUpdates)
    \/ \E n \in {"A", "B"}, url \in {UPLOAD, REGISTRY} : LocalInstallPlugin(n, url, MaxUpdates)
    \/ \E n \in {"A", "B"} : LocalUninstallPlugin(n, MaxUpdates)
    \/ Network(MaxUpdates)
    \/ \E n \in Nodes, u \in UpdateIds, d \in Outcomes, o \in Outcomes :
           DownloadReturns(n, u, d, o)
    \/ \E n \in Nodes, u \in UpdateIds, o \in Outcomes : ReceiveEchoedUpdate(n, u, o)
Spec == Init /\ [][Next]_vars

\* Three nodes in a line; node A changes the model of t1 or
\* installs the plugin from the registry.
InitGossip == InitNodes({Line})
NextGossip ==
    \/ \E name \in LlmNames : LocalReplaceLlm("A", "t1", name, MaxGossipUpdates)
    \/ LocalInstallPlugin("A", REGISTRY, MaxGossipUpdates)
    \/ Network(MaxGossipUpdates)
    \/ \E n \in Nodes, u \in UpdateIds : ForwardReturns(n, u)
    \/ \E n \in Nodes, u \in UpdateIds, d \in Outcomes, o \in Outcomes :
           DownloadReturns(n, u, d, o)
SpecGossip == InitGossip /\ [][NextGossip]_vars

\* Two nodes; node A changes the models of its tenants again and again.
InitSeq == InitNodes({Pair})
NextSeq ==
    \/ \E a \in AgentIds, name \in LlmNames : LocalReplaceLlm("A", a, name, MaxSeqUpdates)
    \/ Network(MaxSeqUpdates)
SpecSeq == InitSeq /\ [][NextSeq]_vars

\* Nodes with two, one and no peer publish the installation of an uploaded
\* plugin; any subset of the sends of a publication fails.
InitFanOut == InitNodes({Hub})
NextFanOut ==
    \/ \E n \in Nodes : LocalInstallPlugin(n, UPLOAD, MaxFanOutUpdates)
    \/ \E t \in tasks : PropagateUpdate(t, MaxFanOutUpdates)
    \/ \E n \in Nodes, u \in UpdateIds, failed \in SUBSET Nodes : PropagateReturns(n, u, failed)
SpecFanOut == InitFanOut /\ [][NextFanOut]_vars

\* Node A knows every other node (the others know each other, or not) and
\* changes the model of tenant t1, which C hosts and B does not. Every send
\* of the publisher succeeds: its request reaches the receiver, whose call of
\* handle_received_update runs to its end (a send is answered or times out
\* after UPDATE_PROPAGATION_TIMEOUT, so no gather waits forever).
InitLive == InitNodes({FullMesh, Hub})
NextLive ==
    \/ \E name \in LlmNames : LocalReplaceLlm("A", "t1", name, MaxLiveUpdates)
    \/ Network(MaxLiveUpdates)
    \/ \E n \in Nodes, u \in UpdateIds : ForwardReturns(n, u)
FairLive ==
    \A n \in Nodes \ {"A"} :
        /\ WF_vars(\E u \in UpdateIds, o \in Outcomes :
                      ReceiveNetworkUpdate(Post(u, "A", n), o))
        /\ WF_vars(\E u \in UpdateIds : ForwardReturns(n, u))
SpecLive == InitLive /\ [][NextLive]_vars /\ FairLive

\* The peer directory of node A while time passes: the heartbeats of B and C
\* arrive at any time or stop, and every running node sweeps every
\* CLEANUP_INTERVAL seconds.
InitPeers == InitNodes({Pair})
NextPeers ==
    \/ \E d \in Delays : Advance(d)
    \/ \E p \in Nodes : HeartbeatReceived("A", p)
    \/ \E n \in Nodes : CleanupDeadNodes(n)
SpecPeers == InitPeers /\ [][NextPeers]_vars

\* Two tasks of node A's event loop calling remove_cheshire_cat again and
\* again, as looking_glass/bill_the_lizard.py defines it.
InitRemove == InitNodes({Pair})
NextRemove ==
    \/ \E r \in Removers, a \in RemovedAgentIds : RemoveCheshireCat(r, a)
    \/ \E r \in Removers : RemoveReturns(r)
SpecRemove == InitRemove /\ [][NextRemove]_vars

\* The same callers with remove_cheshire_cat as cat/bill_the_lizard.py
\* defines it.
InitRemoveOld == InitNodes({Pair})
NextRemoveOld ==
    \/ \E r \in Removers, a \in RemovedAgentIds : RemoveCheshireCatOld(r, a)
    \/ \E r \in Removers : RemoveReturnsOld(r)
SpecRemoveOld == InitRemoveOld /\ [][NextRemoveOld]_vars

\* Node A shuts down while its scheduler runs the idle-strays job and two
\* tasks remove tenants.
InitShutdown == InitNodes({Pair})
NextShutdown ==
    \/ ShutdownCalled
    \/ \E a \in AgentIds, outcome \in TeardownOutcomes : ShutdownTenant(a, outcome)
    \/ ShutdownIteratorRaises
    \/ ShutdownClearsTenants
    \/ ShutdownStopsDiscovery
    \/ ShutdownRemovesJob
    \/ ReaperRuns
    \/ \E r \in Removers, a \in RemovedAgentIds : RemoveCheshireCat(r, a)
    \/ \E r \in Removers : RemoveReturns(r)
SpecShutdown == InitShutdown /\ [][NextShutdown]_vars

\* The sessions of one process: users send their first and later messages,
\* time passes, and the scheduler runs the idle-strays job at any time.
InitSessions == InitNodes({Pair})
NextSessions ==
    \/ \E s \in StrayIds : StrayCreated(s)
    \/ \E s \in StrayIds, outcome \in CallOutcomes : StrayCalled(s, outcome)
    \/ \E d \in SessionDelays : Elapse(d)
    \/ ReaperRuns
SpecSessions == InitSessions /\ [][NextSessions]_vars

\* The event loop of node A calls get_or_create_cheshire_cat while two of its
\* tasks remove tenants.
InitTenants == InitNodes({Pair})
NextTenants ==
    \/ \E a \in RegistryAgentIds : GetOrCreateCalled("loop", a)
    \/ GetOrCreateLookup("loop")
    \/ GetOrCreateConstruct("loop")
    \/ GetOrCreateInsert("loop")
    \/ \E r \in Removers, a \in RemovedAgentIds : RemoveCheshireCat(r, a)
    \/ \E r \in Removers : RemoveReturns(r)
SpecTenants == InitTenants /\ [][NextTenants]_vars

\* The three background loops of node A's discovery and a call of stop().
\* A sleep ends: every sleeping loop eventually wakes.
InitLoops == InitNodes({Pair})
NextLoops ==
    \/ StopCalled("A")
    \/ \E l \in Loops : LoopWakes("A", l)
FairLoops == \A l \in Loops : WF_vars(LoopWakes("A", l))
SpecLoops == InitLoops /\ [][NextLoops]_vars /\ FairLoops

\* Node A changes the model of t1 under every peer map; every request may
\* arrive any number of times.
InitForward == InitNodes(AllPeerMaps)
NextForward ==
    \/ \E name \in LlmNames : LocalReplaceLlm("A", "t1", name, MaxForwardUpdates)
    \/ Network(MaxForwardUpdates)
    \/ \E n \in Nodes, u \in UpdateIds : ForwardReturns(n, u)
SpecForward == InitForward /\ [][NextForward]_vars

\* Three nodes in a line or all knowing each other; nodes A and B publish
\* updates of a type without handler.
InitOther == InitNodes({Line, FullMesh})
NextOther ==
    \/ \E n \in {"A", "B"} : LocalPublishOther(n, MaxOtherUpdates)
    \/ Network(MaxOtherUpdates)
    \/ \E n \in Nodes, u \in UpdateIds : ForwardReturns(n, u)
SpecOther == InitOther /\ [][NextOther]_vars

\* The threads of one process, each calling get_or_create_cheshire_cat once;
\* a thread may be preempted between any two statements of the method.
InitRegistry == InitNodes({Pair})
NextRegistry ==
    \/ \E w \in Workers, a \in RegistryAgentIds : GetOrCreateCalled(w, a)
    \/ \E w \in Workers : GetOrCreateLookup(w)
    \/ \E w \in Workers : GetOrCreateConstruct(w)
    \/ \E w \in Workers : GetOrCreateInsert(w)
SpecRegistry == InitRegistry /\ [][NextRegistry]_vars

\* ------------------------------------------------------------------ claims

Created == 1..Len(messages)

Source(u) == messages[u].source_node

\* Number of times a type-specific handler was invoked on node n for id u.
Invocations(n, u) ==
    Cardinality({i \in 1..Len(handled[n]) : handled[n][i].id = u})

\* A call of handle_received_update for u is suspended on node n.
InProgress(n, u) ==
    \/ Suspended(n, u, "download") \in awaiting
    \/ Suspended(n, u, "forward") \in awaiting

\* The requests node n has created for update u.
SentBy(n, u) == {p \in sent : p.from = n /\ p.id = u}

\* C1, the state part. On a node that did not publish update u: before the
\* first delivery nothing has happened; from the first delivery on the id is
\* in the de-duplication set, the handler of u has been invoked exactly once,
\* and the call of the first delivery is either still suspended or has
\* returned True, once; False has been returned only if u was delivered more
\* than once.
C1_OnceState ==
    \A n \in Nodes : \A u \in Created :
        /\ Invocations(n, u) <= 1
        /\ returned[n][u].T <= 1
        /\ n # Source(u) =>
            /\ deliveries[n][u] = 0 =>
                  /\ Invocations(n, u) = 0
                  /\ returned[n][u] = [T |-> 0, F |-> FALSE, raised |-> FALSE]
            /\ deliveries[n][u] >= 1 =>
                  /\ u \in processed_updates[n]
                  /\ Invocations(n, u) = 1
                  /\ ~returned[n][u].raised
                  /\ (returned[n][u].T = 1) # InProgress(n, u)
            /\ returned[n][u].F <=> deliveries[n][u] = 2

\* C1, the step part. A delivery of u to a node it was delivered to before
\* only returns False: it invokes no handler, creates no request, schedules
\* nothing and leaves the de-duplication set and the node's tenants and
\* plugins as they are.
C1_LaterDeliveryStep ==
    /\ \A n \in Nodes : \A u \in Created :
          (deliveries[n][u] >= 1 /\ deliveries'[n][u] # deliveries[n][u]) =>
              /\ returned'[n][u].F
              /\ returned'[n][u].T = returned[n][u].T
              /\ UNCHANGED <<processed_updates, inserted, handled, sent, tasks,
                             messages, awaiting, lizardVars>>
    /\ (deliveries' = deliveries /\ awaiting' = awaiting /\ messages' = messages) =>
          UNCHANGED <<processed_updates, inserted, handled, sent, returned>>

C2_ReceiverSendsNothing ==
    \A p \in sent : p.from = Source(p.id)

\* C2, the state part of the amended statement. No request carries an update
\* to the node that published it. A node that did not publish u has created
\* no request for u until a call of handle_received_update for u has passed
\* its handler, and from then on exactly one request for each node of its
\* peer map other than the publisher of u.
C2_ForwardState ==
    /\ \A p \in sent : p.id \in Created /\ p.to # Source(p.id) /\ p.to # p.from
    /\ \A n \in Nodes : \A u \in Created :
          n # Source(u) =>
              SentBy(n, u) =
                  IF \/ deliveries[n][u] = 0
                     \/ Suspended(n, u, "download") \in awaiting
                  THEN {}
                  ELSE {Post(u, n, q) : q \in nodes[n] \ {Source(u)}}

\* C2, the step part of the amended statement: a step of
\* handle_received_update publishes no update, i.e. no update_id is generated.
C2_ForwardStep ==
    (deliveries' # deliveries \/ handled' # handled) => messages' = messages

\* C2 (amended): a node that receives an update from a peer does not publish
\* it as a new update and never sends it to the node that published it, but
\* after the handler it forwards the same update, under the same update_id,
\* once to every other node of its peer map.
C2_ForwardsSameUpdate == []C2_ForwardState /\ [][C2_ForwardStep]_vars

\* C2 witness: a node that did not publish an update has received it, applied
\* it and created a request that carries it to a third node.
C2_Witness ==
    \E p \in sent :
        /\ p.from # Source(p.id)
        /\ \E i \in 1..Len(handled[p.from]) :
              handled[p.from][i] = Handled(p.id, "applied")

\* A step in which a type-specific handler of node n runs: it is invoked, or
\* it resumes after its await.
HandlerStep(n) == handled'[n] # handled[n]

\* C3: while a node applies an update it received, nothing is published from
\* that node: no propagate_update is called or scheduled and no update_id is
\* generated.
C3_NoPublishDuringApply ==
    [][\A n \in Nodes :
          HandlerStep(n) => (tasks' = tasks /\ messages' = messages)]_vars

\* C3 witness: updates of a kind whose local apply publishes (an LLM change
\* of a hosted tenant, a plugin uninstallation) have been applied by a
\* receiving node.
C3_Witness ==
    \E n \in Nodes : \E i \in 1..Len(handled[n]) :
        /\ handled[n][i].outcome = "applied"
        /\ n # Source(handled[n][i].id)
        /\ messages[handled[n][i].id].update_type \in {"llm_update", "plugin_uninstalled"}

\* C4: when a handler has finished, the fields it overrides for the apply
\* hold the values they had before it, also when the apply raised: every
\* tenant's lizard reference and both completion callbacks of the plugin
\* manager.
C4_OverrideRestored ==
    [][\A n \in Nodes :
          HandlerStep(n) =>
              /\ \A a \in DOMAIN cheshire_cats[n] :
                    cheshire_cats'[n][a].lizard = cheshire_cats[n][a].lizard
              /\ plugin_manager'[n].on_finish_plugin_install_callback
                    = plugin_manager[n].on_finish_plugin_install_callback
              /\ plugin_manager'[n].on_finish_plugin_uninstall_callback
                    = plugin_manager[n].on_finish_plugin_uninstall_callback]_vars

\* C5: an update a node published is never applied by that node. Its id is
\* in the node's de-duplication set from the first stretch of
\* propagate_update on, also while propagate_update awaits its sends, so
\* every delivery of it to that node returns False and invokes no handler.
C5_OwnUpdateNeverIngested ==
    \A u \in Created :
        LET n == Source(u)
        IN /\ u \in processed_updates[n]
           /\ Invocations(n, u) = 0
           /\ returned[n][u].T = 0
           /\ ~returned[n][u].raised
           /\ ~InProgress(n, u)
           /\ deliveries[n][u] >= 1 => returned[n][u].F

\* C5 witness: an update came back to its publisher while propagate_update
\* was still awaiting its sends, and the call returned False.
C5_Witness ==
    \E u \in Created :
        /\ Suspended(Source(u), u, "propagate") \in awaiting
        /\ deliveries[Source(u)][u] >= 1
        /\ returned[Source(u)][u].F

\* C6: the de-duplication set of a node never holds more than its capacity.
C6_DedupSetCapped ==
    \A n \in Nodes : Cardinality(processed_updates[n]) <= DEDUP_CAPACITY

\* C7: when an id is inserted into a full de-duplication set, the id that was
\* inserted first is evicted and the later ones stay.
C7_OldestEvicted ==
    \A n \in Nodes :
        Len(inserted[n]) = DEDUP_CAPACITY + 1 =>
            /\ inserted[n][1] \notin processed_updates[n]
            /\ \A i \in 2..Len(inserted[n]) : inserted[n][i] \in processed_updates[n]

\* The handler of node n has failed on an update before.
HasFailed(n) == \E i \in 1..Len(handled[n]) : handled[n][i].outcome = "failed"

\* C9, the step part: on a node where a handler has failed, the first
\* delivery of another update is still checked, recorded in the
\* de-duplication set and dispatched to its handler, and an apply that
\* succeeds takes effect.
C9_StillProcessedStep ==
    \A n \in Nodes : \A u \in Created :
        (HasFailed(n) /\ n # Source(u)
           /\ deliveries[n][u] = 0 /\ deliveries'[n][u] = 1) =>
            /\ u \in processed_updates'[n]
            /\ Len(handled'[n]) = Len(handled[n]) + 1
            /\ handled'[n][Len(handled'[n])].id = u
            /\ ~returned'[n][u].F
            /\ LET m == messages[u]
               IN (handled'[n][Len(handled'[n])].outcome = "applied"
                     /\ m.update_type = "llm_update") =>
                      cheshire_cats'[n][m.agent_id].llm = m.language_model_name

\* C9, the state part: no call of handle_received_update has raised, and the
\* call whose handler failed is still suspended in its forwarding or has
\* returned True.
C9_ContainedState ==
    \A n \in Nodes : \A u \in UpdateIds :
        /\ ~returned[n][u].raised
        /\ (\E i \in 1..Len(handled[n]) : handled[n][i] = Handled(u, "failed")) =>
              (returned[n][u].T = 1) # InProgress(n, u)

\* C9: an exception raised while a handler applies an update never leaves
\* handle_received_update, whose call still returns True, and updates with
\* other ids delivered afterwards are still processed.
C9_HandlerFailureContained == []C9_ContainedState /\ [][C9_StillProcessedStep]_vars

\* C9 witness: on one node the handler failed on an update, the call returned
\* True, and an update delivered afterwards was applied and returned True.
C9_Witness ==
    \E n \in Nodes : \E i, j \in 1..Len(handled[n]) :
        /\ i < j
        /\ handled[n][i].outcome = "failed"
        /\ returned[n][handled[n][i].id].T = 1
        /\ handled[n][j].outcome = "applied"
        /\ returned[n][handled[n][j].id].T = 1

\* The handler invoked in this step on node n is given an llm_update for a
\* tenant that node n does not host.
NotHostedLlmUpdate(n) ==
    /\ Len(handled'[n]) = Len(handled[n]) + 1
    /\ LET m == messages[handled'[n][Len(handled'[n])].id]
       IN m.update_type = "llm_update" /\ m.agent_id \notin DOMAIN cheshire_cats[n]

\* C10: an llm_update for a tenant the receiving node does not host changes
\* no tenant registry: no tenant is created and none is modified, and the
\* call does not raise.
C10_NotHostedNoEffect ==
    [][\A n \in Nodes :
          NotHostedLlmUpdate(n) =>
              /\ cheshire_cats' = cheshire_cats
              /\ \A u \in UpdateIds : ~returned'[n][u].raised]_vars

\* C10 witness: a node has handled an llm_update for a tenant it does not
\* host.
C10_Witness ==
    \E n \in Nodes : \E i \in 1..Len(handled[n]) :
        /\ handled[n][i].outcome = "skipped"
        /\ messages[handled[n][i].id].update_type = "llm_update"
        /\ messages[handled[n][i].id].agent_id \notin DOMAIN cheshire_cats[n]

\* C8: however many workers call get_or_create_cheshire_cat with the same
\* agent_id at the same time, at most one tenant object is constructed for
\* it and all the callers are returned the same object.
C8_SingleInstance ==
    /\ \A a \in RegistryAgentIds : constructed[a] <= 1
    /\ \A v, w \in Workers :
          (/\ callers[v].pc = "done" /\ callers[w].pc = "done"
           /\ callers[v].agent_id = callers[w].agent_id
           /\ ~callers[v].raised /\ ~callers[w].raised) =>
              callers[v].result = callers[w].result

\* C19: propagate_update creates a send for every peer of the peer map, and
\* whatever subset of the sends fails it does not raise: once it is no
\* longer awaiting the sends it has returned the update_id.
C19_FanOutNeverAborts ==
    \A u \in Created :
        LET n == Source(u)
        IN /\ SentBy(n, u) = {Post(u, n, p) : p \in nodes[n]}
           /\ reported[n][u] # << >> => ~reported[n][u][1].raised
           /\ Suspended(n, u, "propagate") \notin awaiting => u \in returned_id[n]

\* C19 witness: a publication all of whose sends failed has returned its
\* update_id, and so has a publication from a node with an empty peer map.
C19_Witness ==
    \E u, v \in Created :
        /\ nodes[Source(u)] # {}
        /\ reported[Source(u)][u] # << >>
        /\ reported[Source(u)][u][1].failed = nodes[Source(u)]
        /\ u \in returned_id[Source(u)]
        /\ nodes[Source(v)] = {}
        /\ v \in returned_id[Source(v)]

\* C20: the count propagate_update reports is exact: `successful` is the
\* number of peers whose send did not fail and `total` the number of peers a
\* send was attempted to.
C20_CountExact ==
    \A n \in Nodes : \A u \in UpdateIds :
        reported[n][u] # << >> =>
            LET r == reported[n][u][1]
            IN /\ r.total = Cardinality(SentBy(n, u))
               /\ r.successful = r.total - Cardinality(r.failed)

\* Node n has processed update u: a call of handle_received_update for it
\* has returned True.
Processed(n, u) == returned[n][u].T = 1

\* The outcomes of the handler invocations of node n for update u.
OutcomesOf(n, u) ==
    {handled[n][i].outcome : i \in {j \in 1..Len(handled[n]) : handled[n][j].id = u}}

\* Node n hosts the tenant of llm_update u and the tenant has the model of u.
HasModelOf(n, u) ==
    /\ messages[u].agent_id \in DOMAIN cheshire_cats[n]
    /\ cheshire_cats[n][messages[u].agent_id].llm = messages[u].language_model_name

\* C11 as stated: once node A has published an update, eventually every
\* other node has processed it and, where the tenant is hosted, the tenant
\* has the new model.
C11_EventuallyApplied ==
    \A u \in 1..MaxLiveUpdates :
        (u \in Created) ~>
            (\A n \in Nodes \ {"A"} :
                /\ Processed(n, u)
                /\ messages[u].agent_id \in DOMAIN cheshire_cats[n] => HasModelOf(n, u))

\* C11 (amended): once node A has published an update, eventually every
\* other node has processed it, and never more than once; where the tenant
\* is hosted the handler has run, and the tenant has the new model unless
\* the apply call raised on that node.
C11_EventuallyProcessedOnce ==
    /\ \A u \in 1..MaxLiveUpdates :
          (u \in Created) ~>
              (\A n \in Nodes \ {"A"} :
                  /\ Processed(n, u)
                  /\ messages[u].agent_id \in DOMAIN cheshire_cats[n] =>
                        \/ OutcomesOf(n, u) = {"applied"} /\ HasModelOf(n, u)
                        \/ OutcomesOf(n, u) = {"failed"})
    /\ [](\A n \in Nodes, u \in UpdateIds : returned[n][u].T <= 1)

\* C11 witness: an update of node A was processed by both other nodes, the
\* one that hosts its tenant has applied it and the other has skipped it.
C11_Witness ==
    \E u \in Created : \E n, q \in Nodes \ {"A"} :
        /\ Processed(n, u) /\ Processed(q, u)
        /\ OutcomesOf(n, u) = {"applied"} /\ HasModelOf(n, u)
        /\ OutcomesOf(q, u) = {"skipped"}

\* C12: every peer get_active_nodes returns has been seen within
\* NODE_TIMEOUT.
C12_ActiveWithinTimeout ==
    \A n \in Nodes : \A p \in GetActiveNodes(n) :
        now - last_seen[n][p] <= NODE_TIMEOUT

C14_RediscoveredAfterExpiry ==
    [][\A n \in Nodes : \A p \in Nodes :
          (/\ last_heartbeat'[n][p] # last_heartbeat[n][p]
           /\ last_heartbeat[n][p] >= 0
           /\ now - last_heartbeat[n][p] > NODE_TIMEOUT) =>
              is_new_node'[n][p]]_vars

\* C15: get_or_create_cheshire_cat with the reserved system id fails and
\* registers nothing: the call never constructs or inserts a tenant, it ends
\* raising without a result, and the reserved id is never a key of the
\* tenant map.
C15_ReservedIdRejected ==
    /\ DEFAULT_SYSTEM_KEY \notin DOMAIN cheshire_cats[HOST]
    /\ constructed[DEFAULT_SYSTEM_KEY] = 0
    /\ \A w \in Workers :
          callers[w].agent_id = DEFAULT_SYSTEM_KEY =>
             \/ callers[w].pc = "lookup"
             \/ callers[w] = Call("done", DEFAULT_SYSTEM_KEY, <<>>, <<>>, TRUE)

\* C15 witness: a call with the reserved id has raised while another worker
\* registered a tenant.
C15_Witness ==
    /\ \E w \in Workers : callers[w] = Call("done", DEFAULT_SYSTEM_KEY, <<>>, <<>>, TRUE)
    /\ "t3" \in DOMAIN cheshire_cats[HOST]

\* C16: remove_cheshire_cat is idempotent. No call raises, a finished call
\* leaves its agent_id out of the tenant map, no tenant is torn down more
\* than once whether the calls follow each other or overlap, and a call
\* with an id that is not in the map changes neither the map nor the
\* teardown counts.
C16_RemoveIdempotent ==
    /\ [](/\ \A a \in RemovedAgentIds : torn_down[a] <= 1
          /\ \A r \in Removers :
                /\ ~removers[r].raised
                /\ removers[r].pc = "done" =>
                      removers[r].agent_id \notin DOMAIN cheshire_cats[HOST])
    /\ [][\A r \in Removers :
             (/\ removers'[r] # removers[r]
              /\ removers[r].pc \in {"idle", "done"}
              /\ removers'[r].agent_id \notin DOMAIN cheshire_cats[HOST]) =>
                 /\ removers'[r].pc = "done"
                 /\ UNCHANGED <<cheshire_cats, torn_down>>]_vars

\* C17: when shutdown is over, whether or not the teardown of a tenant
\* failed, every tenant has been torn down, the tenant map is empty,
\* discovery is stopped and the scheduled job is removed.
C17_ShutdownCompletes ==
    shutdown_call.pc \in {"done", "raised"} =>
        /\ \A a \in AgentIds : torn_down[a] >= 1
        /\ DOMAIN cheshire_cats[HOST] = {}
        /\ ~running[HOST]
        /\ ~job_scheduled

\* C18: shutdown removes the scheduled job first, then shuts the tenants
\* down, then stops discovery: the job is no longer scheduled once the
\* tenant loop has begun, discovery is running until the tenant map is
\* cleared, and the job never runs while the tenants are torn down.
C18_ShutdownOrder ==
    /\ [](shutdown_call.pc # "idle" => ~job_scheduled)
    /\ [](shutdown_call.pc \in {"idle", "tenants"} => running[HOST])
    /\ [][reaper_tick' # reaper_tick => shutdown_call.pc # "tenants"]_vars

\* C21: publishing is fire-and-forget. propagate_update hands the update_id
\* back without waiting for a delivery: as soon as the sends of an update
\* exist, its id has been returned to the caller.
C21_ReturnsWithoutWaiting ==
    \A u \in Created : u \in returned_id[Source(u)]

\* C22: a sweep of the reaper evicts exactly the sessions whose last
\* activity is at least the idle timeout back: such a session is gone after
\* the sweep, and a session that was active more recently is kept. Nothing
\* but a sweep evicts a session.
C22_EvictedExactlyWhenIdle ==
    [][/\ reaper_tick' # reaper_tick =>
             \A s \in DOMAIN strays :
                 strays[s].last_message_time # << >> =>
                    (s \notin DOMAIN strays' <=>
                        now - strays[s].last_message_time[1] >= CCAT_STRAYCAT_TIMEOUT)
       /\ (\E s \in DOMAIN strays : s \notin DOMAIN strays') =>
             reaper_tick' # reaper_tick]_vars

\* C22 witness: a sweep at a time when s1 was last active 61 seconds before
\* and s2 30 seconds before has evicted s1 and kept s2.
C22_Witness ==
    /\ "s1" \notin DOMAIN strays
    /\ last_call["s1"] > 0
    /\ now - last_call["s1"] = 61
    /\ "s2" \in DOMAIN strays
    /\ strays["s2"].last_message_time = <<now - 30>>
    /\ reaper_tick

\* C26: every call of StrayCat.__call__ refreshes the last-activity time,
\* whatever its outcome, so no session is classified idle within the idle
\* timeout of its latest call.
C26_RefreshedOnEveryCall ==
    \A s \in DOMAIN strays :
        /\ last_call[s] >= 0 => strays[s].last_message_time = <<last_call[s]>>
        /\ IsIdle(strays[s], now) => now - last_call[s] >= CCAT_STRAYCAT_TIMEOUT

\* C30: a session whose last-message time is unset is not classified idle,
\* whatever the time, and no step evicts it.
C30_UnsetNeverIdle ==
    /\ [](\A s \in DOMAIN strays :
             strays[s].last_message_time = << >> => ~IsIdle(strays[s], now))
    /\ [][\A s \in DOMAIN strays :
             strays[s].last_message_time = << >> => s \in DOMAIN strays']_vars

\* C30 witness: a session that never completed a message, some of whose
\* calls failed, is alive after a sweep at the end of the clock.
C30_Witness ==
    \E s \in DOMAIN strays :
        /\ strays[s].last_message_time = << >>
        /\ last_call[s] > 0
        /\ now >= CCAT_STRAYCAT_TIMEOUT + 30
        /\ reaper_tick

\* The tenant instances of agent_id a on the host that exist and are not
\* completely torn down: the one the process started with and those
\* constructed since, less those whose shutdown has returned.
Existing(a) ==
    LET initial == IF a \in AgentIds THEN 1 ELSE 0
        made == IF a \in RegistryAgentIds THEN constructed[a] ELSE 0
        in_teardown == Cardinality({r \in Removers :
                          removers[r].pc = "shutdown" /\ removers[r].agent_id = a})
    IN initial + made - (torn_down[a] - in_teardown)

\* C23: under every interleaving of get_or_create_cheshire_cat and
\* remove_cheshire_cat, at most one tenant instance per agent_id exists that
\* is not completely torn down.
C23_OneLiveInstance ==
    \A a \in RemovedAgentIds : Existing(a) <= 1

\* C24: the de-duplication test and insert of handle_received_update are
\* one step with respect to other receive calls: however the calls for one
\* update_id overlap on a node, at most one of them returns True and the
\* handler runs at most once; a call returns False only for an id that is
\* in the set; and once no call is suspended any more, exactly one call has
\* returned True and the handler has run exactly once.
C24_CheckThenInsertAtomic ==
    \A n \in Nodes : \A u \in Created :
        /\ returned[n][u].T <= 1
        /\ Invocations(n, u) <= 1
        /\ returned[n][u].F => u \in processed_updates[n]
        /\ (n # Source(u) /\ deliveries[n][u] >= 1 /\ ~InProgress(n, u)) =>
              /\ returned[n][u].T = 1
              /\ Invocations(n, u) = 1

\* C24 witness: a second call for an update has returned False while the
\* first call is suspended, once in its handler and once in forwarding.
C24_Witness ==
    /\ \E n \in Nodes : \E u \in Created :
          /\ Suspended(n, u, "download") \in awaiting
          /\ returned[n][u].F
          /\ returned[n][u].T = 0
    /\ \E n \in Nodes : \E u \in Created :
          /\ Suspended(n, u, "forward") \in awaiting
          /\ returned[n][u].F
          /\ returned[n][u].T = 0

\* C25: once stop() has cleared the running flag, every background loop
\* terminates at its next wake-up: all three loops eventually have ended,
\* none begins another iteration, and no loop that is still iterating finds
\* the socket closed.
C25_LoopsTerminate ==
    /\ (~running["A"]) ~> (\A l \in Loops : loop_pc[l] = "exited")
    /\ [][~running["A"] => wakes' = wakes]_vars
    /\ [](running["A"] => sock["A"])

\* C25 witness: stop() was called after the loops had iterated, and the
\* three loops have ended.
C25_Witness ==
    /\ ~running["A"]
    /\ \A l \in Loops : loop_pc[l] = "exited" /\ wakes[l] > 0

\* The requests created for update u, and how often node n put u into its
\* de-duplication set.
SendsOf(u) == {p \in sent : p.id = u}

FirstReceipts(n, u) ==
    Cardinality({i \in 1..Len(inserted[n]) : inserted[n][i] = u})

\* C27: forwarding terminates. Under every peer map a node takes an update
\* for new at most once, a node other than the source sends it only after
\* that and only to its peers other than the source, and the source sends it
\* only to its own peers; the sends one update causes are at most
\* (N - 1) * (N - 1) for N nodes.
C27_ForwardingBounded ==
    \A u \in Created :
        /\ \A n \in Nodes :
              /\ FirstReceipts(n, u) <= 1
              /\ \A p \in SentBy(n, u) :
                    /\ p.to \in nodes[n]
                    /\ n # Source(u) => (p.to # Source(u) /\ FirstReceipts(n, u) = 1)
        /\ Cardinality(SendsOf(u)) <= (Cardinality(Nodes) - 1) * (Cardinality(Nodes) - 1)

\* C27 witness: with every node knowing every other, all the sends of an
\* update have been made, every node has been delivered the update more
\* than once and no call is suspended any more.
C27_Witness ==
    \E u \in Created :
        /\ Cardinality(SendsOf(u)) = (Cardinality(Nodes) - 1) * (Cardinality(Nodes) - 1)
        /\ \A n \in Nodes \ {Source(u)} : deliveries[n][u] = 2 /\ ~InProgress(n, u)
        /\ awaiting = {}

\* The handler of node n has failed on update u.
FailedOn(n, u) == Handled(u, "failed") \in {handled[n][i] : i \in 1..Len(handled[n])}

\* C28, the state part: an update whose handler failed on a node is in the
\* node's de-duplication set, its handler has been invoked that one time
\* only, and its call is suspended in forwarding or has returned True.
C28_FailedState ==
    \A n \in Nodes : \A u \in Created :
        FailedOn(n, u) =>
            /\ u \in processed_updates[n]
            /\ Invocations(n, u) = 1
            /\ (returned[n][u].T = 1) # InProgress(n, u)

\* C28, the step part: a later delivery of such an update is discarded. It
\* returns False, invokes no handler, sends nothing and leaves the tenants
\* and the plugins of the node as they are.
C28_RedeliveryStep ==
    \A n \in Nodes : \A u \in Created :
        (FailedOn(n, u) /\ deliveries'[n][u] # deliveries[n][u]) =>
            /\ returned'[n][u].F
            /\ handled' = handled
            /\ sent' = sent
            /\ cheshire_cats'[n] = cheshire_cats[n]
            /\ plugin_manager'[n] = plugin_manager[n]
            /\ plugin_installation_registry'[n] = plugin_installation_registry[n]

\* C28: an update whose handler fails on a node stays marked as processed
\* there, its call returns True, and every later delivery of it is discarded,
\* so the change is not applied on that node.
C28_FailedStaysProcessed == []C28_FailedState /\ [][C28_RedeliveryStep]_vars

\* C28 witness: the handler of an llm_update failed on a node that hosts the
\* tenant, the call returned True, the update was delivered again and
\* discarded, and the tenant still has its old model.
C28_Witness ==
    \E n \in Nodes : \E u \in Created :
        /\ FailedOn(n, u)
        /\ returned[n][u].T = 1
        /\ returned[n][u].F
        /\ deliveries[n][u] = 2
        /\ messages[u].update_type = "llm_update"
        /\ messages[u].agent_id \in DOMAIN cheshire_cats[n]
        /\ cheshire_cats[n][messages[u].agent_id].llm = DEFAULT_LLM

\* Update u is of a type handle_received_update has no handler for.
Unhandled(u) ==
    messages[u].update_type \notin {"llm_update", "plugin_installed", "plugin_uninstalled"}

\* C29, the step part: the first delivery of an update of unknown type to a
\* node changes no tenant, plugin or peer state and invokes no handler; the
\* id is recorded, and a request is created for every peer but the source.
C29_UnknownTypeStep ==
    \A n \in Nodes : \A u \in Created :
        (Unhandled(u) /\ n # Source(u) /\ deliveries[n][u] = 0 /\ deliveries'[n][u] = 1) =>
            /\ UNCHANGED <<lizardVars, nodes, handled, tasks>>
            /\ u \in processed_updates'[n]
            /\ {p \in sent' : p.from = n /\ p.id = u} =
                  {Post(u, n, q) : q \in nodes[n] \ {Source(u)}}
            /\ ~returned'[n][u].F

\* C29, the state part: the call for such an update does not raise, and
\* once it is no longer suspended in forwarding it has returned True.
C29_UnknownTypeState ==
    \A n \in Nodes : \A u \in Created :
        (Unhandled(u) /\ n # Source(u) /\ deliveries[n][u] >= 1) =>
            /\ ~returned[n][u].raised
            /\ Invocations(n, u) = 0
            /\ (returned[n][u].T = 1) # InProgress(n, u)

\* C29: a received update of unknown type changes nothing on the node but
\* is recorded in processed_updates, forwarded to the other peers and
\* reported as processed.
C29_UnknownTypeForwarded == []C29_UnknownTypeState /\ [][C29_UnknownTypeStep]_vars

\* C29 witness: a node has received an update of unknown type, has
\* forwarded it to a peer and has returned True.
C29_Witness ==
    \E n \in Nodes : \E u \in Created :
        /\ Unhandled(u)
        /\ n # Source(u)
        /\ returned[n][u].T = 1
        /\ SentBy(n, u) # {}
        /\ u \in processed_updates[n]

====
